---- MODULE Spec2Model ----
(***************************************************************************)
(* Model of streamlit_app.py: the Streamlit script that builds the         *)
(* synthetic availability / loss dataset (generate_data, cached with       *)
(* st.cache_data and seeded through the process-global NumPy generator),   *)
(* reduces it to the monthly trend and then builds the loss table.         *)
(*                                                                         *)
(* One script run per browser session; runs of different sessions are      *)
(* threads of one process and interleave.                                  *)
(*                                                                         *)
(* Numbers are exact fixed point.  A draw of the generator is a level      *)
(* u in 0..RngLevels-1 standing for the float u/RngLevels in [0,1).        *)
(*   fractions (plant_avail)        : integer n stands for n / Milli       *)
(*   percentages of availability    : integer n stands for n / Milli  %    *)
(*   Potential_Gen_MWh              : integer n stands for n / RngLevels   *)
(*   Availability_Loss_MWh          : n stands for n / (Milli * RngLevels) *)
(*   Design / Env / Tech loss %     : integer n stands for n / RngLevels % *)
(***************************************************************************)
EXTENDS Integers, Sequences, FiniteSets

\* periods=90 of the date range, abstracted to a small number of days
NumDays == 2

\* number of distinct values one draw of the generator can return
RngLevels == 2

\* days per calendar month of the resample('M') grouping (30, 31, ... abstracted)
DaysPerMonth == 1

\* concurrent script runs (browser sessions) of the one Streamlit process
Sessions == {"s1", "s2"}

NoSession == "none"

\* "not assigned yet" for data frames and series (a real one has >= 1 row)
NoDf == << >>

Levels == 0 .. (RngLevels - 1)

\* np.random.uniform(0.972, 0.995): the bounds in thousandths
AvailLow == 972
AvailHigh == 995

\* np.random.uniform(500, 550)
PotentialLow == 500
PotentialHigh == 550

\* df['Design_Loss_%'] = 25.0
DesignLossPct == 25

\* np.random.uniform(15, 35, len(df))
EnvLow == 15
EnvHigh == 35

\* the literal 100 of "100 - df['Design_Loss_%'] - df['Env_Loss_%']" and of "* 100"
Hundred == 100

\* lengths of the columns handed to pd.DataFrame for loss_table
LossCategoryLen == 7
LossOtherLen == 5

\* the integer that stands for the fraction 1.0
Milli == 1000 * RngLevels

VARIABLES rngPos, stream, cache, lock, pc, i, data, df, trend_data

vars == << rngPos, stream, cache, lock, pc, i, data, df, trend_data >>

----------------------------------------------------------------------------
(* The process-global generator: np.random.seed(42) rewinds it, each draw  *)
(* returns the next output of the seeded sequence.  `stream` is the part   *)
(* of that (fixed but unknown) sequence that has been observed so far.     *)

Max(a, b) == IF a >= b THEN a ELSE b

\* the outputs us, drawn from position p on, agree with what was observed
Agrees(str, p, us) ==
    \A j \in 1 .. Len(us) : (p + j <= Len(str)) => (str[p + j] = us[j])

\* the observed sequence after drawing us from position p on
Extend(str, p, us) ==
    [j \in 1 .. Max(Len(str), p + Len(us)) |->
        IF j <= Len(str) THEN str[j] ELSE us[j - p]]

\* np.random.uniform(lo, hi) for the draw u: lo + (hi - lo) * u / RngLevels,
\* as an integer number of 1/RngLevels
Uniform(lo, hi, u) == lo * RngLevels + (hi - lo) * u

----------------------------------------------------------------------------
(* generate_data, the loop body                                            *)

AvailLossMWhSwapped(plant_avail, potential_gen) == plant_avail * potential_gen

\* avail_loss_mwh = (1 - plant_avail) * potential_gen
AvailLossMWh(plant_avail, potential_gen) == (Milli - plant_avail) * potential_gen

\* avail_loss_pct = ((1 - plant_avail) * 100)
AvailLossPct(plant_avail) == (Milli - plant_avail) * Hundred

\* the dict appended to data for one date
Row(date, u1, u2) ==
    LET plant_avail   == Uniform(AvailLow, AvailHigh, u1)
        potential_gen == Uniform(PotentialLow, PotentialHigh, u2)
    IN  [ Date                  |-> date,
          Plant_Availability    |-> plant_avail * Hundred,
          Potential_Gen_MWh     |-> potential_gen,
          Availability_Loss_MWh |-> AvailLossMWh(plant_avail, potential_gen),
          Availability_Loss     |-> AvailLossPct(plant_avail) ]

----------------------------------------------------------------------------
(* generate_data, the three KPI columns                                    *)

EnvLossWide(u) == Uniform(EnvLow, Hundred, u)

\* one element of np.random.uniform(15, 35, len(df))
EnvLoss(u) == Uniform(EnvLow, EnvHigh, u)

TechLossNoDesign(design, env) == Hundred * RngLevels - env

\* 100 - df['Design_Loss_%'] - df['Env_Loss_%'], element-wise
TechLoss(design, env) == Hundred * RngLevels - design - env

\* df = pd.DataFrame(data) with the three columns added
WithKpis(rows, us) ==
    [d \in 1 .. Len(rows) |->
        LET design == DesignLossPct * RngLevels
            env    == EnvLoss(us[d])
        IN  [ Date                  |-> rows[d].Date,
              Plant_Availability    |-> rows[d].Plant_Availability,
              Potential_Gen_MWh     |-> rows[d].Potential_Gen_MWh,
              Availability_Loss_MWh |-> rows[d].Availability_Loss_MWh,
              Availability_Loss     |-> rows[d].Availability_Loss,
              Design_Loss           |-> design,
              Env_Loss              |-> env,
              Tech_Loss             |-> TechLoss(design, env) ]]

----------------------------------------------------------------------------
(* trend_data = df.tail(90).resample('M', on='Date')['Availability_Loss_%'] *)
(*                .mean()                                                   *)

\* df.tail(n)
TailRows(frame, n) ==
    IF Len(frame) <= n THEN frame
    ELSE [j \in 1 .. n |-> frame[Len(frame) - n + j]]

\* the calendar month a date falls in, counted from the first date's month
MonthOf(date) == (date - 1) \div DaysPerMonth

RECURSIVE SumOver(_, _, _)
\* sum of Availability_Loss_% over the first n rows of frame that lie in month m
SumOver(frame, n, m) ==
    IF n = 0 THEN 0
    ELSE SumOver(frame, n - 1, m)
         + (IF MonthOf(frame[n].Date) = m THEN frame[n].Availability_Loss ELSE 0)

CountOver(frame, m) ==
    Cardinality({j \in 1 .. Len(frame) : MonthOf(frame[j].Date) = m})

\* one bin per month from the first to the last date, in chronological order;
\* a mean is kept exactly, as the pair total / count
Resample(frame) ==
    LET first == MonthOf(frame[1].Date)
        last  == MonthOf(frame[Len(frame)].Date)
    IN  [k \in 1 .. (last - first + 1) |->
            [ month |-> first + k - 1,
              total |-> SumOver(frame, Len(frame), first + k - 1),
              count |-> CountOver(frame, first + k - 1) ]]

----------------------------------------------------------------------------
(* @st.cache_data: one thread at a time computes a missing value           *)

CanComputeUnlocked(s) == TRUE

CanCompute(s) == lock = NoSession

----------------------------------------------------------------------------

Init ==
    /\ rngPos = 0
    /\ stream = << >>
    /\ cache = NoDf
    /\ lock = NoSession
    /\ pc = [s \in Sessions |-> "start"]
    /\ i = [s \in Sessions |-> 0]
    /\ data = [s \in Sessions |-> << >>]
    /\ df = [s \in Sessions |-> NoDf]
    /\ trend_data = [s \in Sessions |-> NoDf]

\* df = generate_data(): the cache is looked up first
CacheLookup(s) ==
    /\ pc[s] = "start"
    /\ IF cache # NoDf
       THEN /\ df' = [df EXCEPT ![s] = cache]
            /\ pc' = [pc EXCEPT ![s] = "render"]
       ELSE /\ df' = df
            /\ pc' = [pc EXCEPT ![s] = "wait"]
    /\ UNCHANGED << rngPos, stream, cache, lock, i, data, trend_data >>

\* a miss: take the compute lock, then look the cache up again
AcquireLock(s) ==
    /\ pc[s] = "wait"
    /\ CanCompute(s)
    /\ IF cache # NoDf
       THEN /\ df' = [df EXCEPT ![s] = cache]
            /\ pc' = [pc EXCEPT ![s] = "render"]
            /\ lock' = lock
       ELSE /\ df' = df
            /\ pc' = [pc EXCEPT ![s] = "seed"]
            /\ lock' = s
    /\ UNCHANGED << rngPos, stream, cache, i, data, trend_data >>

\* dates = pd.date_range(...); np.random.seed(42); data = []
Seed(s) ==
    /\ pc[s] = "seed"
    /\ rngPos' = 0
    /\ data' = [data EXCEPT ![s] = << >>]
    /\ i' = [i EXCEPT ![s] = 1]
    /\ pc' = [pc EXCEPT ![s] = "loop"]
    /\ UNCHANGED << stream, cache, lock, df, trend_data >>

\* one iteration of "for date in dates": two draws, one row appended
LoopBody(s) ==
    /\ pc[s] = "loop"
    /\ i[s] <= NumDays
    /\ \E u1 \in Levels, u2 \in Levels :
          /\ Agrees(stream, rngPos, << u1, u2 >>)
          /\ stream' = Extend(stream, rngPos, << u1, u2 >>)
          /\ data' = [data EXCEPT ![s] = Append(@, Row(i[s], u1, u2))]
    /\ rngPos' = rngPos + 2
    /\ i' = [i EXCEPT ![s] = @ + 1]
    /\ pc' = [pc EXCEPT ![s] = IF i[s] = NumDays THEN "columns" ELSE "loop"]
    /\ UNCHANGED << cache, lock, df, trend_data >>

\* the KPI columns, return df (the locals data and date go out of scope); the
\* cache stores the value and frees the lock
AddColumns(s) ==
    /\ pc[s] = "columns"
    /\ \E us \in [1 .. Len(data[s]) -> Levels] :
          /\ Agrees(stream, rngPos, us)
          /\ stream' = Extend(stream, rngPos, us)
          /\ df' = [df EXCEPT ![s] = WithKpis(data[s], us)]
          /\ cache' = WithKpis(data[s], us)
    /\ rngPos' = rngPos + Len(data[s])
    /\ lock' = NoSession
    /\ data' = [data EXCEPT ![s] = << >>]
    /\ i' = [i EXCEPT ![s] = 0]
    /\ pc' = [pc EXCEPT ![s] = "render"]
    /\ UNCHANGED trend_data

\* the rest of the script run: the monthly trend of the availability loss, then
\* loss_table = pd.DataFrame({...}), which raises ValueError on columns of
\* unequal length and ends the run before recent_avg
Render(s) ==
    /\ pc[s] = "render"
    /\ trend_data' = [trend_data EXCEPT ![s] = Resample(TailRows(df[s], NumDays))]
    /\ pc' = [pc EXCEPT ![s] =
                IF LossCategoryLen = LossOtherLen THEN "recent_avg" ELSE "error"]
    /\ UNCHANGED << rngPos, stream, cache, lock, i, data, df >>

Next ==
    \E s \in Sessions :
        \/ CacheLookup(s)
        \/ AcquireLock(s)
        \/ Seed(s)
        \/ LoopBody(s)
        \/ AddColumns(s)
        \/ Render(s)

Spec == Init /\ [][Next]_vars

----------------------------------------------------------------------------
(* Every data frame the program holds: each run's df and the cached one.   *)

Frames == {df[s] : s \in Sessions} \cup {cache}

KpiRows == UNION {{f[d] : d \in 1 .. Len(f)} : f \in Frames}

\* the dicts of every run's data list and the rows of every data frame
AvailRows ==
    UNION {{data[s][d] : d \in 1 .. Len(data[s])} : s \in Sessions} \cup KpiRows

C3_AvailabilityLoss ==
    \A r \in AvailRows :
        ( /\ 0 <= r.Plant_Availability
          /\ r.Plant_Availability <= Hundred * Milli
          /\ r.Potential_Gen_MWh >= 0 )
        =>
        /\ r.Availability_Loss = Hundred * Milli - r.Plant_Availability
        /\ r.Availability_Loss_MWh * Hundred
              = (Hundred * Milli - r.Plant_Availability) * r.Potential_Gen_MWh
        /\ r.Availability_Loss_MWh * Hundred
              = r.Availability_Loss * r.Potential_Gen_MWh
        /\ 0 <= r.Availability_Loss_MWh
        /\ r.Availability_Loss_MWh <= r.Potential_Gen_MWh * Milli

\* a run has appended the row of every date, one of them with a loss that is
\* neither zero nor the whole potential generation
C3_Witness ==
    \E s \in Sessions :
        /\ Len(data[s]) = NumDays
        /\ \E d \in 1 .. NumDays :
              /\ data[s][d].Plant_Availability <= Hundred * Milli
              /\ data[s][d].Availability_Loss_MWh > 0
              /\ data[s][d].Availability_Loss_MWh
                    < data[s][d].Potential_Gen_MWh * Milli

\* the data set a run computes alone: the seeded sequence read from its start,
\* two draws per date and then one Env_Loss_% draw per row
SoloDf ==
    WithKpis([d \in 1 .. NumDays |-> Row(d, stream[2 * d - 1], stream[2 * d])],
             [d \in 1 .. NumDays |-> stream[2 * NumDays + d]])

\* C9 (as amended): whatever the interleaving of concurrent script runs, each
\* run's generate_data returns the data set a run alone returns (same rows, same
\* order, same values), and each run's monthly aggregate over it has the same
\* month keys in the same chronological order and the same values; two runs
\* aggregating the same data set get identical results.
C9_Deterministic ==
    /\ \A s \in Sessions :
          /\ df[s] # NoDf =>
                /\ Len(stream) = 3 * NumDays
                /\ df[s] = SoloDf
          /\ trend_data[s] # NoDf =>
                /\ Len(stream) = 3 * NumDays
                /\ trend_data[s] = Resample(TailRows(SoloDf, NumDays))
                /\ \A k \in 1 .. Len(trend_data[s]) :
                      trend_data[s][k].month = k - 1
    /\ \A s \in Sessions, t \in Sessions :
          (trend_data[s] # NoDf /\ trend_data[t] # NoDf)
             => trend_data[s] = trend_data[t]

\* no step writes state that the runs share: the position of the process-global
\* generator, the cache entry
NoSharedWrite == rngPos' = rngPos /\ cache' = cache

\* C9 (as stated): the operations share no mutable state, and every call
\* returns what it returns when run alone.
C9_NoSharedMutableState == [][NoSharedWrite]_vars /\ []C9_Deterministic

\* two runs have both aggregated, over a data set whose draws were not all equal
C9_Witness ==
    \E s \in Sessions, t \in Sessions :
        /\ s # t
        /\ trend_data[s] # NoDf
        /\ trend_data[t] # NoDf
        /\ \E j \in 1 .. Len(stream), k \in 1 .. Len(stream) : stream[j] # stream[k]

\* C10: every record generate_data produces has Design_Loss_% = 25 and
\* Env_Loss_% in [15, 35], hence Tech_Loss_% in [40, 60]: above the alert
\* threshold 25, above the Critical edge 30, and never negative.
C10_GeneratedRanges ==
    \A r \in KpiRows :
        /\ r.Design_Loss = 25 * RngLevels
        /\ 15 * RngLevels <= r.Env_Loss
        /\ r.Env_Loss <= 35 * RngLevels
        /\ 40 * RngLevels <= r.Tech_Loss
        /\ r.Tech_Loss <= 60 * RngLevels
        /\ r.Tech_Loss > 25 * RngLevels
        /\ r.Tech_Loss > 30 * RngLevels
        /\ r.Tech_Loss >= 0

\* generate_data has returned a full data set, one row of it at the top of the
\* Tech_Loss_% range (the lowest Env_Loss_% draw)
C10_Witness ==
    /\ Len(cache) = NumDays
    /\ \E d \in 1 .. Len(cache) :
          /\ cache[d].Env_Loss = 15 * RngLevels
          /\ cache[d].Tech_Loss = 60 * RngLevels

====
